---- MODULE Spec2Model ----
(***************************************************************************)
(* Model of crates/cli/src/cli/chat/editor_integration.rs: the Ctrl+F      *)
(* handler that opens the current prompt line in $EDITOR and turns the     *)
(* edited text into one rustyline command.                                 *)
(*                                                                         *)
(* A string is a sequence of characters drawn from Chars.  "SP", "LF" and  *)
(* "CR" stand for ' ', '\n' and '\r'; "a" is a non-whitespace character.   *)
(***************************************************************************)
EXTENDS Integers, Sequences, FiniteSets, TLC

\* Longest prompt line held by the host line editor.
MaxLine == 2
\* Longest text the editor leaves in the scratch file / longest new_content.
MaxNew == 3
\* How far past the end of the line a directly passed cursor_pos may lie.
MaxOver == 1

Chars == {"a", "SP", "LF", "CR"}

Strings(n) == UNION {[1..k -> Chars] : k \in 0..n}

VARIABLES
    line,       \* ctx.line() at trigger time
    pos,        \* ctx.pos() at trigger time
    buf,        \* the host's buffer: [line, pos]
    pc,         \* "ready" -> "returned" -> "applied"
    op,         \* entry point that ran: "none", "handle", "reconcile"
    env,        \* what the OS / editor did during launch_system_editor
    result,     \* what launch_system_editor returned
    scratch,    \* the scratch file: "never_created", "removed", "left"
    called,     \* create_line_replacement_command was called
    argNew,     \* its new_content argument
    argCursor,  \* its cursor_pos argument
    cmd         \* the Option<Cmd> returned to the host

vars == <<line, pos, buf, pc, op, env, result, scratch, called, argNew, argCursor, cmd>>

----------------------------------------------------------------------------
(* str helpers *)

\* char::is_whitespace, on the modelled alphabet
IsWs(c) == c \in {"SP", "LF", "CR"}

RECURSIVE TrimStartWs(_)
TrimStartWs(s) ==
    IF s # <<>> /\ IsWs(Head(s)) THEN TrimStartWs(Tail(s)) ELSE s

RECURSIVE TrimEndWs(_)
TrimEndWs(s) ==
    IF s # <<>> /\ IsWs(s[Len(s)]) THEN TrimEndWs(SubSeq(s, 1, Len(s) - 1)) ELSE s

\* str::trim
Trim(s) == TrimStartWs(TrimEndWs(s))

\* str::trim_end_matches(c): removes every trailing repetition of c
RECURSIVE TrimEndMatches(_, _)
TrimEndMatches(s, c) ==
    IF s # <<>> /\ s[Len(s)] = c THEN TrimEndMatches(SubSeq(s, 1, Len(s) - 1), c) ELSE s

----------------------------------------------------------------------------
(* rustyline::Cmd values, as records of one shape *)

NoCmd == [kind |-> "None", mvt |-> "-", n |-> 0, text |-> <<>>]
Noop == [kind |-> "Noop", mvt |-> "-", n |-> 0, text |-> <<>>]
Kill(m) == [kind |-> "Kill", mvt |-> m, n |-> 0, text |-> <<>>]
Insert(k, t) == [kind |-> "Insert", mvt |-> "-", n |-> k, text |-> t]
Replace(m, t) == [kind |-> "Replace", mvt |-> m, n |-> 0, text |-> t]

----------------------------------------------------------------------------
(* EditorLauncher::create_line_replacement_command *)

\* variant: the cursor-at-end test written with == instead of >=
create_line_replacement_command_eq(new_content, current_text, cursor_pos) ==
    IF new_content = <<>>
    THEN IF current_text = <<>> THEN Noop ELSE Kill("BeginningOfLine")
    ELSE IF current_text = <<>>
         THEN Insert(1, new_content)
         ELSE IF cursor_pos = 0
              THEN Replace("EndOfLine", new_content)
              ELSE IF cursor_pos = Len(current_text)
                   THEN Replace("BeginningOfLine", new_content)
                   ELSE Replace("EndOfLine", new_content)

\* variant: the empty-line branch is missing, an empty line is replaced
create_line_replacement_command_noinsert(new_content, current_text, cursor_pos) ==
    IF new_content = <<>>
    THEN IF current_text = <<>> THEN Noop ELSE Kill("BeginningOfLine")
    ELSE IF cursor_pos = 0
         THEN Replace("EndOfLine", new_content)
         ELSE IF cursor_pos >= Len(current_text)
              THEN Replace("BeginningOfLine", new_content)
              ELSE Replace("EndOfLine", new_content)

\* variant: the interior branch anchors at the beginning of the line
create_line_replacement_command_mid(new_content, current_text, cursor_pos) ==
    IF new_content = <<>>
    THEN IF current_text = <<>> THEN Noop ELSE Kill("BeginningOfLine")
    ELSE IF current_text = <<>>
         THEN Insert(1, new_content)
         ELSE IF cursor_pos = 0
              THEN Replace("EndOfLine", new_content)
              ELSE Replace("BeginningOfLine", new_content)

create_line_replacement_command(new_content, current_text, cursor_pos) ==
    IF new_content = <<>>
    THEN IF current_text = <<>> THEN Noop ELSE Kill("BeginningOfLine")
    ELSE IF current_text = <<>>
         THEN Insert(1, new_content)
         ELSE IF cursor_pos = 0
              THEN Replace("EndOfLine", new_content)
              ELSE IF cursor_pos >= Len(current_text)
                   THEN Replace("BeginningOfLine", new_content)
                   ELSE Replace("EndOfLine", new_content)

----------------------------------------------------------------------------
(* EditorLauncher::launch_system_editor *)

\* What the operating system and the editor process do during one launch.
\*   write : fs::write   "ok" | "fail_create" (no file made) | "fail_write" (file made)
\*   spawn : Command::status  "fail" | "nonzero" | "zero"
\*   read  : fs::read_to_string  "ok" | "fail"
\*   final : the scratch file's content when the editor exits
EnvFailures ==
    {[write |-> "fail_create", spawn |-> "-", read |-> "-", final |-> <<>>],
     [write |-> "fail_write", spawn |-> "-", read |-> "-", final |-> <<>>],
     [write |-> "ok", spawn |-> "fail", read |-> "-", final |-> <<>>],
     [write |-> "ok", spawn |-> "nonzero", read |-> "-", final |-> <<>>],
     [write |-> "ok", spawn |-> "zero", read |-> "fail", final |-> <<>>]}

EnvSuccesses ==
    {[write |-> "ok", spawn |-> "zero", read |-> "ok", final |-> f] : f \in Strings(MaxNew)}

EnvOutcomes == EnvFailures \cup EnvSuccesses

NoEnv == [write |-> "-", spawn |-> "-", read |-> "-", final |-> <<>>]

\* Result<Option<String>>
NoResult == [tag |-> "none", some |-> FALSE, text |-> <<>>, err |-> "-"]
Err(e) == [tag |-> "Err", some |-> FALSE, text |-> <<>>, err |-> e]
OkNone == [tag |-> "Ok", some |-> FALSE, text |-> <<>>, err |-> "-"]
OkSome(t) == [tag |-> "Ok", some |-> TRUE, text |-> t, err |-> "-"]

\* variant: tests the raw content for emptiness, without trim()
content_is_cleared_raw(edited_content) == edited_content = <<>>

\* edited_content.trim().is_empty()
content_is_cleared(edited_content) == Trim(edited_content) = <<>>

\* variant: removes at most one trailing '\n'
strip_trailing_newline_once(edited_content) ==
    IF edited_content # <<>> /\ edited_content[Len(edited_content)] = "LF"
    THEN SubSeq(edited_content, 1, Len(edited_content) - 1)
    ELSE edited_content

\* edited_content.trim_end_matches('\n')
strip_trailing_newline(edited_content) == TrimEndMatches(edited_content, "LF")

\* The value returned and the state the scratch file is left in.  "removed"
\* means fs::remove_file was called on the path (its result is discarded).
launch_system_editor(initial_content, e) ==
    IF e.write # "ok"
    THEN [res |-> Err("Write"),
          scratch |-> IF e.write = "fail_write" THEN "left" ELSE "never_created"]
    ELSE IF e.spawn = "fail"
    THEN [res |-> Err("Spawn"), scratch |-> "left"]
    ELSE IF e.spawn = "nonzero"
    THEN [res |-> Err("NonZero"), scratch |-> "removed"]
    ELSE IF e.read # "ok"
    THEN [res |-> Err("Read"), scratch |-> "left"]
    ELSE IF content_is_cleared(e.final)
    THEN [res |-> OkNone, scratch |-> "removed"]
    ELSE [res |-> OkSome(strip_trailing_newline(e.final)), scratch |-> "removed"]

----------------------------------------------------------------------------
(* <EditorLauncher as ConditionalEventHandler>::handle *)

\* The command returned, with the call made to create_line_replacement_command.
Returned(c) == [cmd |-> c, called |-> FALSE, new |-> <<>>]
Reconciled(new_content, current_text, cursor_pos) ==
    [cmd |-> create_line_replacement_command(new_content, current_text, cursor_pos),
     called |-> TRUE, new |-> new_content]

\* variant: a failed launch is treated like a cleared file
handle_err_clears(current_text, cursor_pos, res) ==
    IF res.tag = "Ok" /\ res.some
    THEN IF Trim(res.text) = Trim(current_text)
         THEN Returned(Noop)
         ELSE Reconciled(res.text, current_text, cursor_pos)
    ELSE Reconciled(<<>>, current_text, cursor_pos)

handle(current_text, cursor_pos, res) ==
    IF res.tag = "Ok" /\ res.some
    THEN IF Trim(res.text) = Trim(current_text)
         THEN Returned(Noop)
         ELSE Reconciled(res.text, current_text, cursor_pos)
    ELSE IF res.tag = "Ok"
    THEN Reconciled(<<>>, current_text, cursor_pos)
    ELSE Returned(Noop)

----------------------------------------------------------------------------
(* The host line editor applying the returned command to its buffer.       *)
(* A Movement is relative to the cursor: BeginningOfLine spans from the    *)
(* start of the line to the cursor, EndOfLine from the cursor to the end.  *)

HostKill(b, m) ==
    IF m = "BeginningOfLine"
    THEN [line |-> SubSeq(b.line, b.pos + 1, Len(b.line)), pos |-> 0]
    ELSE [line |-> SubSeq(b.line, 1, b.pos), pos |-> b.pos]

RECURSIVE Repeat(_, _)
Repeat(t, k) == IF k = 0 THEN <<>> ELSE t \o Repeat(t, k - 1)

HostInsert(b, k, t) ==
    [line |-> SubSeq(b.line, 1, b.pos) \o Repeat(t, k) \o SubSeq(b.line, b.pos + 1, Len(b.line)),
     pos |-> b.pos + k * Len(t)]

HostApply(b, c) ==
    CASE c.kind = "Kill" -> HostKill(b, c.mvt)
      [] c.kind = "Insert" -> HostInsert(b, c.n, c.text)
      [] c.kind = "Replace" -> HostInsert(HostKill(b, c.mvt), 1, c.text)
      [] OTHER -> b

----------------------------------------------------------------------------
(* The transaction *)

Init ==
    /\ line \in Strings(MaxLine)
    /\ pos \in 0..Len(line)
    /\ buf = [line |-> line, pos |-> pos]
    /\ pc = "ready"
    /\ op = "none"
    /\ env = NoEnv
    /\ result = NoResult
    /\ scratch = "never_created"
    /\ called = FALSE
    /\ argNew = <<>>
    /\ argCursor = 0
    /\ cmd = NoCmd

\* The trigger: handle runs the editor on the current line and returns a command.
Handle(e) ==
    /\ pc = "ready"
    /\ LET run == launch_system_editor(line, e)
           out == handle(line, pos, run.res)
       IN /\ result' = run.res
          /\ scratch' = run.scratch
          /\ cmd' = out.cmd
          /\ called' = out.called
          /\ argNew' = out.new
          /\ argCursor' = pos
    /\ env' = e
    /\ op' = "handle"
    /\ pc' = "returned"
    /\ UNCHANGED <<line, pos, buf>>

\* create_line_replacement_command called on its own, with any arguments.
Reconcile(new_content, cursor_pos) ==
    /\ pc = "ready"
    /\ cmd' = create_line_replacement_command(new_content, line, cursor_pos)
    /\ called' = TRUE
    /\ argNew' = new_content
    /\ argCursor' = cursor_pos
    /\ op' = "reconcile"
    /\ pc' = "returned"
    /\ UNCHANGED <<line, pos, buf, env, result, scratch>>

\* The host applies the one command it was handed.
Apply ==
    /\ pc = "returned"
    /\ buf' = HostApply(buf, cmd)
    /\ pc' = "applied"
    /\ UNCHANGED <<line, pos, op, env, result, scratch, called, argNew, argCursor, cmd>>

\* Ctrl+F is pressed: the host calls handle, whatever the environment does.
Trigger == pc = "ready" /\ \E e \in EnvOutcomes : Handle(e)

\* A direct call, as the unit tests make it; cursor_pos may lie past the end.
DirectCall ==
    /\ pc = "ready"
    /\ \E n \in Strings(MaxNew), c \in 0..(Len(line) + MaxOver) : Reconcile(n, c)

Next == Trigger \/ DirectCall \/ Apply

Spec == Init /\ [][Next]_vars

----------------------------------------------------------------------------
(* Properties *)

\* The host has applied the command returned by a call of
\* create_line_replacement_command whose cursor_pos was the host's cursor.
AppliedAtCursor == pc = "applied" /\ called /\ argCursor = pos

\* The editor exited with status zero and the scratch file was read back.
ZeroExitRead == op = "handle" /\ env.spawn = "zero" /\ env.read = "ok"

AllWhitespace(s) == \A i \in 1..Len(s) : IsWs(s[i])

\* C1: for non-empty new_content and non-empty, different current_text, the
\* buffer equals new_content after the host applies the returned command
\* with the cursor at cursor_offset, whatever the offset.
C1_WholeLineReplaced ==
    (AppliedAtCursor /\ argNew # <<>> /\ line # <<>> /\ argNew # line)
        => buf.line = argNew

\* C2: with new_content empty the returned command is a kill that empties a
\* non-empty line at every cursor offset, and Noop when the line is empty.
C2_WholeLineCleared ==
    (called /\ argNew = <<>> /\ argCursor = pos) =>
        /\ line = <<>> => cmd = Noop
        /\ line # <<>> => cmd.kind = "Kill"
        /\ (line # <<>> /\ pc = "applied") => buf.line = <<>>

\* C3: on every return of launch_system_editor after the scratch file was
\* written (spawn failure, non-zero exit, read failure, successful read)
\* remove_file has been called on it.
C3_ScratchRemovedOnEveryExit ==
    (op = "handle" /\ env.write = "ok") => scratch = "removed"

\* C4: when launch_system_editor fails, handle returns Noop and the host
\* buffer text and cursor after the transaction equal those before it.
C4_FailureIsNoop ==
    (op = "handle" /\ result.tag = "Err") =>
        /\ cmd = Noop
        /\ ~called
        /\ pc = "applied" => buf = [line |-> line, pos |-> pos]

C4_Witness ==
    /\ pc = "applied" /\ op = "handle" /\ line # <<>>
    /\ result = Err("Spawn")
    /\ buf.line = line

\* C5: when the editor exits zero leaving content equal to the line up to
\* trailing whitespace, handle returns Noop and the buffer is unchanged.
C5_RoundTripIsNoop ==
    (ZeroExitRead /\ TrimEndWs(env.final) = TrimEndWs(line)) =>
        /\ cmd = Noop
        /\ pc = "applied" => buf = [line |-> line, pos |-> pos]

\* One trailing newline sequence ("\n" or "\r\n") removed, if there is one.
StripOneNewlineSequence(f) ==
    IF f # <<>> /\ f[Len(f)] = "LF"
    THEN IF Len(f) >= 2 /\ f[Len(f) - 1] = "CR"
         THEN SubSeq(f, 1, Len(f) - 2)
         ELSE SubSeq(f, 1, Len(f) - 1)
    ELSE f

\* C6 as stated: for final content F that is not empty or whitespace-only
\* the Runner returns Ok(Some(T)), T being F less exactly one trailing
\* newline sequence.
C6_ExactlyOneNewlineStripped ==
    (ZeroExitRead /\ ~AllWhitespace(env.final)) =>
        result = OkSome(StripOneNewlineSequence(env.final))

\* C6 amended: T is F less all of its trailing '\n' characters: F is T
\* followed by k >= 0 '\n' characters and T does not end in '\n'; nothing
\* else is removed (a '\r' before the newlines stays).
C6_AllTrailingNewlinesStripped ==
    (ZeroExitRead /\ ~AllWhitespace(env.final)) =>
        /\ result.tag = "Ok" /\ result.some
        /\ \E k \in 0..Len(env.final) :
              /\ Len(result.text) + k = Len(env.final)
              /\ \A i \in 1..Len(result.text) : result.text[i] = env.final[i]
              /\ \A i \in (Len(result.text) + 1)..Len(env.final) : env.final[i] = "LF"
        /\ result.text # <<>>
        /\ result.text[Len(result.text)] # "LF"

C6_Witness ==
    /\ ZeroExitRead
    /\ env.final = <<"a", "LF", "LF">>
    /\ result = OkSome(<<"a">>)

\* C7: on a zero exit with a successful read the Runner returns Ok(None)
\* exactly when the final content is empty or all whitespace, and otherwise
\* Ok(Some(t)) with t non-empty.
C7_NoneIffBlank ==
    ZeroExitRead =>
        /\ result.tag = "Ok"
        /\ (~result.some) <=> AllWhitespace(env.final)
        /\ result.some => result.text # <<>>

C7_Witness ==
    /\ ZeroExitRead
    /\ env.final # <<>> /\ AllWhitespace(env.final)
    /\ result = OkNone

\* C8 as stated: for non-empty new_content and current_text the returned
\* command is a Replace carrying new_content and is the same command for
\* every cursor offset from 0 to len(current_text).
C8_SameCommandForEveryOffset ==
    (called /\ argNew # <<>> /\ line # <<>>) =>
        /\ cmd.kind = "Replace" /\ cmd.text = argNew
        /\ \A c \in 0..Len(line) : create_line_replacement_command(argNew, line, c) = cmd

\* C8 amended: the returned command is a Replace carrying exactly
\* new_content for every cursor offset; only its movement depends on the
\* offset: EndOfLine below len(current_text), BeginningOfLine from there on.
C8_ReplacePayloadForEveryOffset ==
    (called /\ argNew # <<>> /\ line # <<>>) =>
        /\ cmd.kind = "Replace" /\ cmd.text = argNew
        /\ cmd.mvt = IF argCursor < Len(line) THEN "EndOfLine" ELSE "BeginningOfLine"
        /\ \A c \in 0..Len(line) :
              LET r == create_line_replacement_command(argNew, line, c)
              IN /\ r.kind = "Replace" /\ r.text = argNew
                 /\ r.mvt = IF c < Len(line) THEN "EndOfLine" ELSE "BeginningOfLine"

C8_Witness ==
    /\ called /\ op = "reconcile"
    /\ Len(line) = 2 /\ argCursor = 1 /\ argNew # <<>> /\ argNew # line
    /\ cmd = Replace("EndOfLine", argNew)

\* C9: for non-empty new_content and empty current_text the returned command
\* inserts new_content once, whatever cursor offset is passed, and the buffer
\* equals new_content after the host applies it.
C9_InsertIntoEmptyLine ==
    (called /\ argNew # <<>> /\ line = <<>>) =>
        /\ cmd = Insert(1, argNew)
        /\ pc = "applied" => buf = [line |-> argNew, pos |-> Len(argNew)]

C9_Witness ==
    /\ pc = "applied" /\ called /\ line = <<>>
    /\ argCursor = 1 /\ argNew # <<>>
    /\ buf.line = argNew

\* C10: create_line_replacement_command always returns one command, and for
\* a cursor offset beyond len(current_text) it returns the command it
\* returns for cursor offset len(current_text).
C10_TotalAndClamped ==
    called =>
        /\ cmd.kind \in {"Noop", "Kill", "Insert", "Replace"}
        /\ argCursor > Len(line) =>
              cmd = create_line_replacement_command(argNew, line, Len(line))

C10_Witness ==
    /\ called /\ line # <<>> /\ argNew # <<>>
    /\ argCursor > Len(line)
    /\ cmd = Replace("BeginningOfLine", argNew)

====
